---- MODULE Spec2Model ----
(***************************************************************************)
(* Model of the web codec service of nelsam/codecs: the codec registry,    *)
(* content negotiation for responding (both variants present in the        *)
(* sources: the Accept-tree variant and the substring variant), codec      *)
(* selection for interpreting, and the marshal/unmarshal facade.           *)
(*                                                                         *)
(* Go strings are modelled as sequences of one-character strings, so that  *)
(* Split, LastIndex, ToLower, Contains and slicing are computed on the     *)
(* characters, as the code computes them.                                  *)
(***************************************************************************)
EXTENDS Integers, Sequences, FiniteSets, TLC

VARIABLES codecs, initial, added, last

vars == <<codecs, initial, added, last>>

(* ------------------------------ bounds --------------------------------- *)

\* Largest number of AddCodec calls explored on one service.
MaxAdded == 2

(* ------------------------- strings (package strings) ------------------- *)

UpperChars == <<"A", "B", "C", "D", "E", "F", "G", "H", "I", "J", "K", "L", "M", "N", "O", "P", "Q", "R", "S", "T", "U", "V", "W", "X", "Y", "Z">>

LowerChars == <<"a", "b", "c", "d", "e", "f", "g", "h", "i", "j", "k", "l", "m", "n", "o", "p", "q", "r", "s", "t", "u", "v", "w", "x", "y", "z">>

ToLowerChar(c) ==
    IF \E i \in 1..26 : UpperChars[i] = c
    THEN LowerChars[CHOOSE i \in 1..26 : UpperChars[i] = c]
    ELSE c

\* strings.ToLower
ToLower(s) == IF s = <<>> THEN <<>> ELSE [i \in 1..Len(s) |-> ToLowerChar(s[i])]

\* strings.Contains
Contains(s, substr) ==
    \E i \in 0..(Len(s) - Len(substr)) : SubSeq(s, i + 1, i + Len(substr)) = substr

RECURSIVE Split(_, _)
\* strings.Split with a one-character separator: always at least one piece.
Split(s, sep) ==
    IF \E i \in 1..Len(s) : s[i] = sep
    THEN LET i == CHOOSE k \in 1..Len(s) :
                      s[k] = sep /\ \A j \in 1..(k - 1) : s[j] # sep
         IN  <<SubSeq(s, 1, i - 1)>> \o Split(SubSeq(s, i + 1, Len(s)), sep)
    ELSE <<s>>

\* strings.LastIndex with a one-character needle: 0-based index, -1 if absent.
LastIndex(s, c) ==
    IF \E i \in 1..Len(s) : s[i] = c
    THEN (CHOOSE i \in 1..Len(s) : s[i] = c /\ \A j \in (i + 1)..Len(s) : s[j] # c) - 1
    ELSE -1

(* ------------------------------ codecs --------------------------------- *)

ContentTypeJSON == <<"a", "p", "p", "l", "i", "c", "a", "t", "i", "o", "n", "/", "j", "s", "o", "n">>

ContentTypeJSONP == <<"t", "e", "x", "t", "/", "j", "a", "v", "a", "s", "c", "r", "i", "p", "t">>

Codec(contentType, fileExtension, canCallback) ==
    [ContentType |-> contentType, FileExtension |-> fileExtension,
     CanMarshalWithCallback |-> canCallback]

JsonCodec == Codec(ContentTypeJSON, <<"j", "s", "o", "n">>, FALSE)

JsonPCodec == Codec(ContentTypeJSONP, <<"j", "s">>, TRUE)

MsgpackCodec == Codec(<<"a", "p", "p", "l", "i", "c", "a", "t", "i", "o", "n", "/", "x", "-", "m", "s", "g", "p", "a", "c", "k">>, <<"m", "s", "g", "p", "a", "c", "k">>, FALSE)

BsonCodec == Codec(<<"a", "p", "p", "l", "i", "c", "a", "t", "i", "o", "n", "/", "b", "s", "o", "n">>, <<"b", "s", "o", "n">>, FALSE)

CsvCodec == Codec(<<"t", "e", "x", "t", "/", "c", "s", "v">>, <<"c", "s", "v">>, FALSE)

SimpleXmlCodec == Codec(<<"a", "p", "p", "l", "i", "c", "a", "t", "i", "o", "n", "/", "x", "m", "l">>, <<"x", "m", "l">>, FALSE)

\* Codecs a caller may register besides the shipped ones: a second codec
\* of the JSONP content type, and one whose content type and extension are
\* spelled in upper case and that supports callbacks.
OtherJsonPCodec == Codec(ContentTypeJSONP, <<"j", "s", "o", "n", "p">>, TRUE)

UpperJsonCodec == Codec(<<"A", "p", "p", "l", "i", "c", "a", "t", "i", "o", "n", "/", "J", "S", "O", "N">>, <<"J", "S", "O", "N">>, TRUE)

CodecUniverse == {JsonCodec, JsonPCodec, SimpleXmlCodec, OtherJsonPCodec, UpperJsonCodec}

DefaultCodecs == <<JsonCodec, JsonPCodec, MsgpackCodec, BsonCodec, CsvCodec, SimpleXmlCodec>>

(* ------------------------------ results -------------------------------- *)

\* What one call produced.  outcome is "return" or "panic"; codec, err and
\* bytes are empty (nil) or hold one value; list is the sequence Codecs
\* returns; calls is the set of codec methods the call invoked.
Result(outcome, panic, codec, err, bytes, calls) ==
    [outcome |-> outcome, panic |-> panic, codec |-> codec, err |-> err,
     bytes |-> bytes, list |-> <<>>, calls |-> calls]

Return(codec, err, bytes, calls) == Result("return", "", codec, err, bytes, calls)

Panic(msg, calls) == Result("panic", msg, <<>>, <<>>, <<>>, calls)

NoCodecsPanic == "codecs: No codecs are installed"

\* errors.New: the value made at one allocation site is equal only to itself.
ErrorsNew(site, msg) == [site |-> site, msg |-> msg]

ErrorContentTypeNotSupported ==
    ErrorsNew("ErrorContentTypeNotSupported", <<"C", "o", "n", "t", "e", "n", "t", " ", "t", "y", "p", "e", " ", "i", "s", " ", "n", "o", "t", " ", "s", "u", "p", "p", "o", "r", "t", "e", "d", ".">>)

(* ------------------------------ registry ------------------------------- *)

NewWebCodecService == DefaultCodecs

Codecs(cs) == cs

AddCodec_prepend(cs, codec) == <<codec>> \o cs

AddCodec(cs, codec) == Append(cs, codec)

assertCodecs_never(cs) == FALSE

\* TRUE when assertCodecs panics.
assertCodecs(cs) == Len(cs) = 0

(* --------------------------- GetCodec ---------------------------------- *)

GetCodecMatch_exact(contentType, codec) ==
    \/ Len(contentType) = 0 /\ codec.ContentType = ContentTypeJSON
    \/ ToLower(contentType) = ToLower(codec.ContentType)

GetCodecMatch(contentType, codec) ==
    \/ Len(contentType) = 0 /\ codec.ContentType = ContentTypeJSON
    \/ Contains(ToLower(contentType), ToLower(codec.ContentType))

GetCodec(cs, contentType) ==
    IF assertCodecs(cs) THEN Panic(NoCodecsPanic, {})
    ELSE IF \E i \in 1..Len(cs) : GetCodecMatch(contentType, cs[i])
    THEN LET i == CHOOSE k \in 1..Len(cs) :
                      /\ GetCodecMatch(contentType, cs[k])
                      /\ \A j \in 1..(k - 1) : ~GetCodecMatch(contentType, cs[j])
         IN  Return(<<cs[i]>>, <<>>, <<>>, {"ContentType"})
    ELSE Return(<<>>,
                <<ErrorsNew("GetCodec",
                            <<"C", "o", "n", "t", "e", "n", "t", " ", "t", "y", "p", "e", " ", "\"">> \o contentType \o <<"\"", " ", "i", "s", " ", "n", "o", "t", " ", "s", "u", "p", "p", "o", "r", "t", "e", "d", ".">>)>>,
                <<>>, {"ContentType"})

(* ---------------- Accept parsing (tree variant of the sources) --------- *)

\* Priority 1.0, in thousandths.
DefaultPriority == 1000

\* NewAcceptType either panics or yields an AcceptType.
Parsed(acceptType) == [panic |-> "", value |-> <<acceptType>>]

ParsePanic(msg) == [panic |-> msg, value |-> <<>>]

\* new(AcceptType) leaves Variables nil.  The first parameter segment
\* therefore ends the call: variableParts[1] is out of range when the
\* segment has no "=", and otherwise the write into the nil map panics.
\* With no parameter segment the map is still nil at the lookup of "q",
\* the lookup finds nothing and Priority stays 1.0.  types[0][categoryEnd:]
\* panics when categoryEnd is -1 and keeps the "/" otherwise.
NewAcceptType(accept) ==
    LET typesAndVariables == Split(accept, ";")
        variables         == Tail(typesAndVariables)
        typesString       == typesAndVariables[1]
        types             == Split(typesString, "+")
        categoryEnd       == LastIndex(types[1], "/")
    IN  IF variables # <<>>
        THEN LET variableParts == Split(variables[1], "=")
             IN  IF Len(variableParts) < 2
                 THEN ParsePanic("index out of range")
                 ELSE ParsePanic("assignment to entry in nil map")
        ELSE IF categoryEnd < 0
        THEN ParsePanic("slice bounds out of range")
        ELSE Parsed([ContentTypes |-> <<SubSeq(types[1], categoryEnd + 1, Len(types[1]))>>
                                          \o Tail(types),
                     Size         |-> 1,
                     Priority     |-> DefaultPriority,
                     Left         |-> <<>>,
                     Right        |-> <<>>])

RECURSIVE AcceptTypeAppend(_, _)
\* AcceptType.Append; Left and Right are empty (nil) or hold one subtree.
AcceptTypeAppend(acceptType, next) ==
    LET grown ==
          IF acceptType.Priority = next.Priority
          THEN IF acceptType.Left = <<>>
               THEN [acceptType EXCEPT !.Left = <<next>>]
               ELSE IF acceptType.Right = <<>>
               THEN [acceptType EXCEPT !.Right = <<next>>]
               ELSE IF acceptType.Right[1].Size <= acceptType.Left[1].Size
               THEN [acceptType EXCEPT !.Right = <<AcceptTypeAppend(acceptType.Right[1], next)>>]
               ELSE [acceptType EXCEPT !.Left = <<AcceptTypeAppend(acceptType.Left[1], next)>>]
          ELSE IF next.Priority > acceptType.Priority
          THEN IF acceptType.Left = <<>>
               THEN [acceptType EXCEPT !.Left = <<next>>]
               ELSE [acceptType EXCEPT !.Left = <<AcceptTypeAppend(acceptType.Left[1], next)>>]
          ELSE IF acceptType.Right = <<>>
               THEN [acceptType EXCEPT !.Right = <<next>>]
               ELSE [acceptType EXCEPT !.Right = <<AcceptTypeAppend(acceptType.Right[1], next)>>]
    IN  [grown EXCEPT !.Size = @ + 1]

RECURSIVE ToSlice(_)
\* AcceptType.ToSlice: the left subtree, the node, the right subtree.
ToSlice(acceptType) ==
    LET leftSlice  == IF acceptType.Left = <<>> THEN <<>> ELSE ToSlice(acceptType.Left[1])
        leftEnd    == IF acceptType.Left = <<>> THEN 0 ELSE acceptType.Left[1].Size
        rightSlice == IF acceptType.Right = <<>> THEN <<>> ELSE ToSlice(acceptType.Right[1])
    IN  [i \in 1..acceptType.Size |->
            IF i <= leftEnd THEN leftSlice[i]
            ELSE IF i = leftEnd + 1 THEN acceptType
            ELSE rightSlice[i - leftEnd - 1]]

FindCodecMatch(acceptType, codec) ==
    \E t \in 1..Len(acceptType.ContentTypes) :
        ToLower(acceptType.ContentTypes[t]) = ToLower(codec.ContentType)

\* AcceptType.FindCodec: empty (nil) or the first codec, in registry order,
\* equal to one of the clause's content types.
FindCodec(acceptType, cs) ==
    IF \E i \in 1..Len(cs) : FindCodecMatch(acceptType, cs[i])
    THEN <<cs[CHOOSE k \in 1..Len(cs) :
                  /\ FindCodecMatch(acceptType, cs[k])
                  /\ \A j \in 1..(k - 1) : ~FindCodecMatch(acceptType, cs[j])]>>
    ELSE <<>>

RECURSIVE ParseAcceptPieces(_, _)
\* The loop of ParseAcceptTypes over the pieces still to read; root is
\* empty (nil) before the first piece.
ParseAcceptPieces(acceptPieces, root) ==
    IF acceptPieces = <<>> THEN [panic |-> "", value |-> root]
    ELSE LET nextType == NewAcceptType(Head(acceptPieces))
         IN  IF nextType.panic # "" THEN nextType
             ELSE ParseAcceptPieces(Tail(acceptPieces),
                                    IF root = <<>> THEN nextType.value
                                    ELSE <<AcceptTypeAppend(root[1], nextType.value[1])>>)

ParseAcceptTypes(accept) == ParseAcceptPieces(Split(accept, ","), <<>>)

(* ----------------------- GetCodecForResponding ------------------------- *)

\* A range loop that returns at the first element passing its test: the
\* index of the first TRUE of hits, or 0 when the loop runs to its end.
FirstIndex(hits) ==
    IF \E i \in DOMAIN hits : hits[i]
    THEN CHOOSE k \in DOMAIN hits : hits[k] /\ \A j \in 1..(k - 1) : ~hits[j]
    ELSE 0

IsJSONP(codec) == codec.ContentType = ContentTypeJSONP

CallbackCodec_last(cs) ==
    IF \E i \in 1..Len(cs) : IsJSONP(cs[i])
    THEN CHOOSE k \in 1..Len(cs) : IsJSONP(cs[k]) /\ \A j \in (k + 1)..Len(cs) : ~IsJSONP(cs[j])
    ELSE 0

\* The callback scan: the index of the first codec of the JSONP content
\* type, 0 when the scan ends without one.
CallbackCodec(cs) == FirstIndex([i \in 1..Len(cs) |-> IsJSONP(cs[i])])

ExtensionMatch(codec, extension) == ToLower(codec.FileExtension) = ToLower(extension)

\* The tree variant: callback scan, then the Accept clauses in ToSlice
\* order, then the extension/callback scan, then the first codec.
GetCodecForResponding(cs, accept, extension, hasCallback) ==
    IF assertCodecs(cs) THEN Panic(NoCodecsPanic, {})
    ELSE IF hasCallback /\ CallbackCodec(cs) # 0
    THEN Return(<<cs[CallbackCodec(cs)]>>, <<>>, <<>>, {"ContentType"})
    ELSE
      LET early           == IF hasCallback THEN {"ContentType"} ELSE {}
          acceptTypesRoot == ParseAcceptTypes(accept)
      IN  IF acceptTypesRoot.panic # "" THEN Panic(acceptTypesRoot.panic, early)
          ELSE
            LET slice    == ToSlice(acceptTypesRoot.value[1])
                hit      == FirstIndex([i \in 1..Len(slice) |->
                                            FindCodec(slice[i], cs) # <<>>])
                Late(c)  == \/ ExtensionMatch(c, extension)
                            \/ hasCallback /\ c.CanMarshalWithCallback
                k        == FirstIndex([i \in 1..Len(cs) |-> Late(cs[i])])
                lateCalls == {"ContentType", "FileExtension"} \cup
                             (IF hasCallback /\ ~ExtensionMatch(cs[1], extension)
                              THEN {"CanMarshalWithCallback"} ELSE {})
            IN  IF hit # 0
                THEN Return(FindCodec(slice[hit], cs), <<>>, <<>>, {"ContentType"})
                ELSE IF cs = <<>> THEN Panic("index out of range", {})
                ELSE IF k # 0
                THEN Return(<<cs[k]>>, <<>>, <<>>, lateCalls)
                ELSE Return(<<cs[1]>>, <<>>, <<>>, lateCalls)

\* The substring variant: one scan of the registry, each codec tried
\* against the whole Accept string, then the extension, then callback
\* support.
GetCodecForResponding_services(cs, accept, extension, hasCallback) ==
    IF assertCodecs(cs) THEN Panic(NoCodecsPanic, {})
    ELSE IF hasCallback /\ CallbackCodec(cs) # 0
    THEN Return(<<cs[CallbackCodec(cs)]>>, <<>>, <<>>, {"ContentType"})
    ELSE
      LET InAccept(c) == Contains(ToLower(accept), ToLower(c.ContentType))
          Wins(c)     == \/ InAccept(c)
                         \/ ExtensionMatch(c, extension)
                         \/ hasCallback /\ c.CanMarshalWithCallback
          k           == FirstIndex([i \in 1..Len(cs) |-> Wins(cs[i])])
          reached     == IF k = 0 THEN 1..Len(cs) ELSE 1..k
          calls       == {"ContentType"} \cup
                         (IF \E i \in reached : ~InAccept(cs[i])
                          THEN {"FileExtension"} ELSE {}) \cup
                         (IF hasCallback /\ \E i \in reached :
                                ~InAccept(cs[i]) /\ ~ExtensionMatch(cs[i], extension)
                          THEN {"CanMarshalWithCallback"} ELSE {})
      IN  IF cs = <<>> THEN Panic("index out of range", {})
          ELSE IF k # 0 THEN Return(<<cs[k]>>, <<>>, <<>>, calls)
          ELSE Return(<<cs[1]>>, <<>>, <<>>, calls)

(* ------------------------- marshal facade ------------------------------ *)

\* codecs.PublicData: an object that is a Facade is replaced by its public
\* data, or the Facade's error is returned; any other object is unchanged.
PublicData(object) ==
    IF object = "facade" THEN [value |-> <<"public">>, err |-> <<>>]
    ELSE IF object = "failingFacade"
    THEN [value |-> <<>>, err |-> <<ErrorsNew("PublicData", <<"n", "o", " ", "p", "u", "b", "l", "i", "c", " ", "d", "a", "t", "a">>)>>]
    ELSE [value |-> <<object>>, err |-> <<>>]

\* codecOk is what codec.Marshal does with the data: it succeeds or fails.
MarshalWithCodec(cs, codec, object, codecOk) ==
    IF assertCodecs(cs) THEN Panic(NoCodecsPanic, {})
    ELSE LET publicData == PublicData(object)
         IN  IF publicData.err # <<>>
             THEN Return(<<>>, publicData.err, <<>>, {})
             ELSE IF codecOk
             THEN Return(<<>>, <<>>, publicData.value, {"Marshal"})
             ELSE Return(<<>>, <<ErrorsNew("Marshal", <<"m", "a", "r", "s", "h", "a", "l", " ", "f", "a", "i", "l", "e", "d">>)>>, <<>>, {"Marshal"})

\* codecOk is what codec.Unmarshal does with the data.
UnmarshalWithCodec(cs, codec, codecOk) ==
    IF assertCodecs(cs) THEN Panic(NoCodecsPanic, {})
    ELSE IF codecOk THEN Return(<<>>, <<>>, <<>>, {"Unmarshal"})
    ELSE Return(<<>>, <<ErrorsNew("Unmarshal", <<"u", "n", "m", "a", "r", "s", "h", "a", "l", " ", "f", "a", "i", "l", "e", "d">>)>>, <<>>, {"Unmarshal"})

(* ------------------------------ inputs --------------------------------- *)

\* One clause of an Accept header as the client means it: the media type,
\* the text of its parameters, and the priority that text asks for (in
\* thousandths; 1.0 when q is missing or is not a number).  lead is the
\* blank, if any, that follows the comma before the clause.
Clause(lead, type, params, priority) ==
    [lead |-> lead, type |-> type, params |-> params, priority |-> priority]

RECURSIVE JoinClauses(_)
\* The Accept string the client sends for a header.
JoinClauses(header) ==
    IF header = <<>> THEN <<>>
    ELSE LET c == header[1]
             text == c.lead \o c.type \o c.params
         IN  IF Len(header) = 1 THEN text
             ELSE text \o <<",">> \o JoinClauses(Tail(header))

AppJson == <<"a", "p", "p", "l", "i", "c", "a", "t", "i", "o", "n", "/", "j", "s", "o", "n">>

AppXml == <<"a", "p", "p", "l", "i", "c", "a", "t", "i", "o", "n", "/", "x", "m", "l">>

Headers ==
    { <<>>,
      <<Clause(<<>>, AppJson, <<>>, 1000)>>,
      <<Clause(<<>>, AppXml, <<>>, 1000)>>,
      <<Clause(<<>>, AppXml, <<";", "q", "=", "0", ".", "5">>, 500), Clause(<<" ">>, AppJson, <<";", "q", "=", "0", ".", "9">>, 900)>>,
      <<Clause(<<>>, AppXml, <<";", "q", "=", "0", ".", "5">>, 500), Clause(<<" ">>, AppJson, <<>>, 1000)>>,
      <<Clause(<<>>, AppJson, <<>>, 1000), Clause(<<" ">>, AppXml, <<>>, 1000)>>,
      <<Clause(<<>>, <<"t", "e", "x", "t", "/", "u", "n", "r", "e", "c", "o", "g", "n", "i", "z", "e", "d">>, <<>>, 1000)>>,
      <<Clause(<<>>, <<"t", "e", "x", "t">>, <<>>, 1000)>>,
      <<Clause(<<>>, AppJson, <<";", "q">>, 1000)>>,
      <<Clause(<<>>, AppJson, <<";", "q", "=", "x">>, 1000)>>,
      <<Clause(<<>>, <<"A", "P", "P", "L", "I", "C", "A", "T", "I", "O", "N", "/", "J", "S", "O", "N">>, <<>>, 1000)>>,
      <<Clause(<<>>, <<"a", "/", "b", "+", "a", "p", "p", "l", "i", "c", "a", "t", "i", "o", "n", "/", "j", "s", "o", "n">>, <<>>, 1000),
        Clause(<<>>, <<"a", "/", "b", "+", "a", "p", "p", "l", "i", "c", "a", "t", "i", "o", "n", "/", "x", "m", "l">>, <<>>, 1000)>>,
      <<Clause(<<>>, <<"a", "/", "b", "+", "t", "e", "x", "t", "/", "c", "s", "v">>, <<>>, 1000),
        Clause(<<>>, <<"a", "/", "b", "+", "a", "p", "p", "l", "i", "c", "a", "t", "i", "o", "n", "/", "j", "s", "o", "n">>, <<>>, 1000),
        Clause(<<>>, <<"a", "/", "b", "+", "a", "p", "p", "l", "i", "c", "a", "t", "i", "o", "n", "/", "x", "m", "l">>, <<>>, 1000),
        Clause(<<>>, <<"a", "/", "b", "+", "t", "e", "x", "t", "/", "j", "a", "v", "a", "s", "c", "r", "i", "p", "t">>, <<>>, 1000)>> }

Extensions == { <<>>, <<"x", "m", "l">>, <<"J", "S", "O", "N">>, <<"j", "s">> }

ContentTypes ==
    { <<>>, AppJson, <<"a", "p", "p", "l", "i", "c", "a", "t", "i", "o", "n", "/", "j", "s", "o", "n", ";", " ", "c", "h", "a", "r", "s", "e", "t", "=", "u", "t", "f", "-", "8">>, <<"t", "e", "x", "t", "/", "u", "n", "k", "n", "o", "w", "n">>,
      <<"A", "P", "P", "L", "I", "C", "A", "T", "I", "O", "N", "/", "X", "M", "L">>, <<"a", "p", "p", "l", "i", "c", "a", "t", "i", "o", "n", "/", "x", "m", "l", ",", " ", "a", "p", "p", "l", "i", "c", "a", "t", "i", "o", "n", "/", "j", "s", "o", "n">> }

Objects == {"plain", "facade", "failingFacade"}

(* ------------------------------ state ---------------------------------- *)

\* The call made last and what it produced.
Call(op, header, extension, hasCallback, contentType, codec, object, res) ==
    [op |-> op, header |-> header, accept |-> JoinClauses(header),
     extension |-> extension, hasCallback |-> hasCallback,
     contentType |-> contentType, codec |-> codec, object |-> object, res |-> res]

\* A service is made by NewWebCodecService or is the zero value of
\* WebCodecService, whose registry is empty.
Init ==
    /\ codecs \in {NewWebCodecService, <<>>}
    /\ initial = codecs
    /\ added = <<>>
    /\ last = Call("new", <<>>, <<>>, FALSE, <<>>, <<>>, "", Return(<<>>, <<>>, <<>>, {}))

\* The calls other than AddCodec leave the service as it was, so a call made
\* after one of them sees what that one saw: they are explored once, right
\* after construction and after each AddCodec.
Fresh == last.op \in {"new", "AddCodec"}

CodecsCall ==
    /\ Fresh
    /\ last' = Call("Codecs", <<>>, <<>>, FALSE, <<>>, <<>>, "",
                    [Return(<<>>, <<>>, <<>>, {}) EXCEPT !.list = Codecs(codecs)])
    /\ UNCHANGED <<codecs, initial, added>>

AddCodecCall ==
    \E codec \in CodecUniverse :
        /\ Len(added) < MaxAdded
        /\ codecs' = AddCodec(codecs, codec)
        /\ added' = Append(added, codec)
        /\ last' = Call("AddCodec", <<>>, <<>>, FALSE, <<>>, <<codec>>, "",
                        Return(<<>>, <<>>, <<>>, {}))
        /\ UNCHANGED initial

GetCodecForRespondingCall ==
    \E header \in Headers, extension \in Extensions, hasCallback \in BOOLEAN :
        /\ Fresh
        /\ last' = Call("GetCodecForResponding", header, extension, hasCallback, <<>>, <<>>, "",
                        GetCodecForResponding(codecs, JoinClauses(header), extension, hasCallback))
        /\ UNCHANGED <<codecs, initial, added>>

GetCodecForRespondingCall_services ==
    \E header \in Headers, extension \in Extensions, hasCallback \in BOOLEAN :
        /\ Fresh
        /\ last' = Call("GetCodecForResponding_services", header, extension, hasCallback,
                        <<>>, <<>>, "",
                        GetCodecForResponding_services(codecs, JoinClauses(header),
                                                       extension, hasCallback))
        /\ UNCHANGED <<codecs, initial, added>>

GetCodecCall ==
    \E contentType \in ContentTypes :
        /\ Fresh
        /\ last' = Call("GetCodec", <<>>, <<>>, FALSE, contentType, <<>>, "",
                        GetCodec(codecs, contentType))
        /\ UNCHANGED <<codecs, initial, added>>

MarshalWithCodecCall ==
    \E codec \in CodecUniverse, object \in Objects, codecOk \in BOOLEAN :
        /\ Fresh
        /\ last' = Call("MarshalWithCodec", <<>>, <<>>, FALSE, <<>>, <<codec>>, object,
                        MarshalWithCodec(codecs, codec, object, codecOk))
        /\ UNCHANGED <<codecs, initial, added>>

UnmarshalWithCodecCall ==
    \E codec \in CodecUniverse, codecOk \in BOOLEAN :
        /\ Fresh
        /\ last' = Call("UnmarshalWithCodec", <<>>, <<>>, FALSE, <<>>, <<codec>>, "",
                        UnmarshalWithCodec(codecs, codec, codecOk))
        /\ UNCHANGED <<codecs, initial, added>>

Next ==
    \/ CodecsCall
    \/ AddCodecCall
    \/ GetCodecForRespondingCall
    \/ GetCodecForRespondingCall_services
    \/ GetCodecCall
    \/ MarshalWithCodecCall
    \/ UnmarshalWithCodecCall

Spec == Init /\ [][Next]_vars

(* ------------------------------ properties ----------------------------- *)

Responding == last.op \in {"GetCodecForResponding", "GetCodecForResponding_services"}

Returned(codec) == last.res.outcome = "return" /\ last.res.codec = <<codec>>

\* The clause names the content type of the codec.
Names(clause, codec) == ToLower(clause.type) = ToLower(codec.ContentType)

\* The clauses of the header sent last that name a registered codec.
Matching ==
    {i \in 1..Len(last.header) : \E k \in 1..Len(codecs) : Names(last.header[i], codecs[k])}

ReturnedNamedBy(i) ==
    /\ last.res.outcome = "return"
    /\ last.res.err = <<>>
    /\ last.res.codec # <<>>
    /\ Names(last.header[i], last.res.codec[1])

\* C1: on a non-empty registry GetCodecForResponding completes for every
\* accept string, extension and hasCallback, with a nil error and a codec
\* of the registry.
C1_RespondingTotal ==
    (Responding /\ codecs # <<>>) =>
        /\ last.res.outcome = "return"
        /\ last.res.err = <<>>
        /\ \E k \in 1..Len(codecs) : last.res.codec = <<codecs[k]>>

\* C2: without a callback, when several clauses name registered codecs and
\* one of them has a higher priority than all the others, the codec
\* returned is the one that clause names, whatever the registry order.
C2_HigherPriorityPreferred ==
    (Responding /\ ~last.hasCallback /\ codecs # <<>> /\ Cardinality(Matching) >= 2) =>
        \A i \in Matching :
            (\A j \in Matching \ {i} : last.header[j].priority < last.header[i].priority)
                => ReturnedNamedBy(i)

\* C3: with a callback and a codec of the JSONP content type registered,
\* GetCodecForResponding returns the first such codec in registry order,
\* for every accept string and extension.
C3_CallbackOverrides ==
    (Responding /\ last.hasCallback) =>
        \A k \in 1..Len(codecs) :
            (/\ codecs[k].ContentType = ContentTypeJSONP
             /\ \A j \in 1..(k - 1) : codecs[j].ContentType # ContentTypeJSONP)
                => Returned(codecs[k]) /\ last.res.err = <<>>

\* C3 witness: a callback request whose Accept header names a registered
\* codec, on a registry holding two different JSONP codecs after another
\* codec, got the first of the two.
C3_Witness ==
    /\ last.op = "GetCodecForResponding"
    /\ last.hasCallback
    /\ Matching # {}
    /\ \E j, k \in 2..Len(codecs) :
          /\ j < k
          /\ codecs[j].ContentType = ContentTypeJSONP
          /\ codecs[k].ContentType = ContentTypeJSONP
          /\ codecs[j] # codecs[k]
          /\ \A n \in 1..(j - 1) : codecs[n].ContentType # ContentTypeJSONP
          /\ Returned(codecs[j])

\* C4: without a callback, the codec returned is the one named by the
\* matching clause of the highest priority (1.0 for a clause with no q or
\* an unparsable q), the earliest in the header among those of that
\* priority.
C4_HeaderOrderBreaksTies ==
    (Responding /\ ~last.hasCallback /\ codecs # <<>>) =>
        \A i \in Matching :
            (\A j \in Matching :
                \/ last.header[j].priority < last.header[i].priority
                \/ last.header[j].priority = last.header[i].priority /\ i <= j)
                => ReturnedNamedBy(i)

\* C5: without a callback, when some clause names a registered codec the
\* codec returned is one named by a clause, even when an earlier codec of
\* the registry has the requested extension.
C5_AcceptBeforeExtension ==
    (Responding /\ ~last.hasCallback /\ codecs # <<>> /\ Matching # {}) =>
        \E i \in Matching : ReturnedNamedBy(i)

\* C6: without a callback, when no clause names a registered codec, the
\* codec returned is the first of the registry whose file extension is
\* the requested one, compared case-insensitively.
C6_ExtensionFallback ==
    (Responding /\ ~last.hasCallback /\ Matching = {}) =>
        \A k \in 1..Len(codecs) :
            (/\ ToLower(codecs[k].FileExtension) = ToLower(last.extension)
             /\ \A j \in 1..(k - 1) :
                   ToLower(codecs[j].FileExtension) # ToLower(last.extension))
                => Returned(codecs[k])

\* No registered content type is a case-insensitive substring of the
\* content type asked for last.
NothingContained ==
    \A k \in 1..Len(codecs) :
        ~Contains(ToLower(last.contentType), ToLower(codecs[k].ContentType))

\* C7: GetCodec of a non-empty content type that contains no registered
\* content type returns no codec and fails with
\* ErrorContentTypeNotSupported, and the error carries the content type.
C7_NotSupportedError ==
    (last.op = "GetCodec" /\ codecs # <<>> /\ last.contentType # <<>> /\ NothingContained) =>
        /\ last.res.outcome = "return"
        /\ last.res.codec = <<>>
        /\ last.res.err # <<>>
        /\ last.res.err[1] = ErrorContentTypeNotSupported
        /\ Contains(last.res.err[1].msg, last.contentType)

\* C8: GetCodec of a non-empty content type returns, with a nil error, the
\* first codec in registry order whose content type is a case-insensitive
\* substring of it.
C8_FirstSubstringMatch ==
    (last.op = "GetCodec" /\ last.contentType # <<>>) =>
        \A k \in 1..Len(codecs) :
            (/\ Contains(ToLower(last.contentType), ToLower(codecs[k].ContentType))
             /\ \A j \in 1..(k - 1) :
                   ~Contains(ToLower(last.contentType), ToLower(codecs[j].ContentType)))
                => Returned(codecs[k]) /\ last.res.err = <<>>

\* C8 witness: a content type longer than every registered content type
\* matched two different codecs and the first was returned.
C8_Witness ==
    /\ last.op = "GetCodec"
    /\ \A n \in 1..Len(codecs) : Len(last.contentType) > Len(codecs[n].ContentType)
    /\ \E j, k \in 1..Len(codecs) :
          /\ j < k
          /\ codecs[j] # codecs[k]
          /\ Contains(ToLower(last.contentType), ToLower(codecs[j].ContentType))
          /\ Contains(ToLower(last.contentType), ToLower(codecs[k].ContentType))
          /\ \A n \in 1..(j - 1) :
                ~Contains(ToLower(last.contentType), ToLower(codecs[n].ContentType))
          /\ Returned(codecs[j])

QueryOps ==
    {"GetCodecForResponding", "GetCodecForResponding_services", "GetCodec",
     "MarshalWithCodec", "UnmarshalWithCodec"}

\* C9: on an empty registry GetCodecForResponding, GetCodec,
\* MarshalWithCodec and UnmarshalWithCodec fail with the no-codecs
\* failure, return no codec, no bytes and no error value, and invoke no
\* codec method.
C9_EmptyRegistryFailsFirst ==
    (last.op \in QueryOps /\ codecs = <<>>) =>
        /\ last.res.outcome = "panic"
        /\ last.res.panic = NoCodecsPanic
        /\ last.res.codec = <<>>
        /\ last.res.bytes = <<>>
        /\ last.res.err = <<>>
        /\ last.res.calls = {}

\* C9 witness: MarshalWithCodec of an object whose public data would be
\* marshalled successfully was called on an empty registry and panicked.
C9_Witness ==
    /\ codecs = <<>>
    /\ last.op = "MarshalWithCodec"
    /\ last.object = "facade"
    /\ last.res.outcome = "panic"

\* C10: the registry, and what Codecs returns, is the initial codec
\* sequence followed by the codecs passed to AddCodec, in call order,
\* duplicates kept.
C10_AppendOnly ==
    /\ codecs = initial \o added
    /\ last.op = "Codecs" => last.res.list = initial \o added

\* C10 witness: Codecs was called on a service made with the default
\* codecs after the same codec was added twice.
C10_Witness ==
    /\ last.op = "Codecs"
    /\ initial = DefaultCodecs
    /\ Len(added) >= 2
    /\ added[1] = added[2]
    /\ last.res.list = codecs

====
